---- MODULE Spec2Model ----
(***************************************************************************)
(* A model of custom_components/elevenlabs_stt/stt.py: the ElevenLabs      *)
(* speech-to-text provider.  One provider object serves any number of      *)
(* invocations of async_process_audio_stream.  An invocation is a          *)
(* coroutine on the event loop (it collects the audio stream, packages it, *)
(* chooses the language and then waits, inside a 30 second timeout, for    *)
(* the executor) plus a job on an executor thread (it issues the HTTP      *)
(* request and maps the response).                                         *)
(***************************************************************************)
EXTENDS Integers, Sequences, FiniteSets, TLC

VARIABLES
    env,          \* the scenario: how many calls, which inputs the callers and the endpoint offer
    self,         \* the provider's fields (stt.py 139-144)
    pc,           \* position of each invocation's coroutine
    metadata,     \* the SpeechMetadata each invocation was called with
    received,     \* the chunks the stream has yielded so far, in arrival order
    audio_data,   \* local audio_data (stt.py 187-189)
    language_code,            \* local language_code (stt.py 203)
    elevenlabs_language_code, \* local elevenlabs_language_code (stt.py 260)
    audio_stream, \* local audio_stream: the packaged container (stt.py 192-200)
    timer,        \* the async_timeout context of the invocation (stt.py 309)
    job,          \* state of the executor job of the invocation (stt.py 262, 311)
    requests,     \* the outbound requests the job has issued, in order (stt.py 285)
    outcome,      \* what the network answered to the job's request
    response,     \* the value the job returned to the coroutine (stt.py 311)
    log,          \* the records the invocation wrote to _LOGGER
    result,       \* the SpeechResult the invocation returned
    raised        \* the exception that left the invocation, if any

vars == << env, self, pc, metadata, received, audio_data, language_code,
           elevenlabs_language_code, audio_stream, timer, job, requests,
           outcome, response, log, result, raised >>

----------------------------------------------------------------------------
(* Bounds of the model *)

NumInvocations == 2
MaxChunks == 2

Invocations == 1 .. NumInvocations

(* Program constants *)

TIMEOUT == 30
HTTP_OK == 200

----------------------------------------------------------------------------
(* Tables *)

DEFAULT_API_URL == "https://api.elevenlabs.io/v1"
DEFAULT_MODEL == "scribe_v1"
DEFAULT_LANGUAGE == "auto"

SUPPORTED_LANGUAGES ==
    { "auto", "af", "ar", "hy", "az", "be", "bs", "bg", "ca", "zh", "hr", "cs",
      "da", "nl", "en", "et", "fi", "fr", "gl", "de", "el", "he", "hi", "hu",
      "is", "id", "it", "ja", "kn", "kk", "ko", "lv", "lt", "mk", "ms", "mr",
      "mi", "ne", "no", "fa", "pl", "pt", "ro", "ru", "sr", "sk", "sl", "es",
      "sw", "sv", "tl", "ta", "th", "tr", "uk", "ur", "vi", "cy" }

\* Python's None where a string is expected
NoneStr == "<None>"

language_map ==
    ("auto" :> NoneStr) @@
    ("en" :> "eng") @@ ("fr" :> "fra") @@ ("de" :> "deu") @@ ("it" :> "ita") @@
    ("es" :> "spa") @@ ("pt" :> "por") @@ ("pl" :> "pol") @@ ("nl" :> "nld") @@
    ("ru" :> "rus") @@ ("ja" :> "jpn") @@ ("zh" :> "cmn") @@ ("ko" :> "kor") @@
    ("hi" :> "hin") @@ ("ar" :> "ara") @@ ("tr" :> "tur") @@ ("sv" :> "swe") @@
    ("fi" :> "fin") @@ ("da" :> "dan") @@ ("no" :> "nor") @@ ("cs" :> "ces") @@
    ("hu" :> "hun") @@ ("el" :> "ell") @@ ("ro" :> "ron") @@ ("bg" :> "bul") @@
    ("hr" :> "hrv") @@ ("uk" :> "ukr") @@ ("he" :> "heb") @@ ("ca" :> "cat") @@
    ("sk" :> "slk") @@ ("lt" :> "lit") @@ ("et" :> "est") @@ ("lv" :> "lav") @@
    ("sl" :> "slv") @@ ("cy" :> "cym") @@ ("id" :> "ind") @@ ("ms" :> "msa") @@
    ("vi" :> "vie") @@ ("th" :> "tha") @@ ("bn" :> "ben") @@ ("ta" :> "tam") @@
    ("te" :> "tel") @@ ("mr" :> "mar") @@ ("kn" :> "kan") @@ ("ml" :> "mal") @@
    ("gu" :> "guj") @@ ("pa" :> "pan") @@ ("ur" :> "urd") @@ ("fa" :> "fas") @@
    ("sw" :> "swh")

----------------------------------------------------------------------------
(* JSON values as Python sees them after response.json(), and None *)

None == [kind |-> "null"]
JObject(f) == [kind |-> "object", v |-> f]
JArray(s) == [kind |-> "array", v |-> s]
JString(s) == [kind |-> "string", v |-> s]
JNumber(n) == [kind |-> "number", v |-> n]
\* a body that is not JSON: response.json() raises
NotJson == [kind |-> "invalid"]

\* bool(v)
Truthy(v) ==
    CASE v.kind = "null" -> FALSE
      [] v.kind = "object" -> DOMAIN v.v # {}
      [] v.kind = "array" -> Len(v.v) > 0
      [] v.kind = "string" -> Len(v.v) > 0
      [] v.kind = "number" -> v.v # 0

\* whether `key in v` is defined (a number has no __contains__: TypeError)
ContainsDefined(v) == v.kind \in {"object", "array", "string"}

\* key in v
Contains(v, key) ==
    CASE v.kind = "object" -> key \in DOMAIN v.v
      [] v.kind = "array" -> \E k \in 1 .. Len(v.v) : v.v[k] = key
      [] v.kind = "string" ->
            \E k \in 1 .. Len(v.v) :
                k + Len(key) - 1 <= Len(v.v) /\ SubSeq(v.v, k, k + Len(key) - 1) = key

\* whether v[key] is defined for a string key present in v (str and list
\* indices must be integers: TypeError)
SubscriptDefined(v) == v.kind = "object"

----------------------------------------------------------------------------
(* The coroutine's pure steps, stt.py 187-260 *)

\* audio_data += chunk, with the operands swapped
AccumulatePrepend(data, chunk) == chunk \o data

\* audio_data += chunk
Accumulate(data, chunk) == data \o chunk

\* wave.open(..., 'wb') with setnchannels, setsampwidth, setframerate and
\* writeframes: a canonical 44-byte PCM header followed by the frames.  The
\* header is patched on close, so both sizes count the bytes written.
WaveFile(m, data) ==
    LET nchannels == m.channel
        sampwidth == m.bit_rate \div 8
        framerate == m.sample_rate
    IN  [ riff_size       |-> 36 + Len(data),
          format_tag      |-> 1,
          nchannels       |-> nchannels,
          framerate       |-> framerate,
          byte_rate       |-> nchannels * framerate * sampwidth,
          block_align     |-> nchannels * sampwidth,
          bits_per_sample |-> sampwidth * 8,
          data_size       |-> Len(data),
          frames          |-> data ]

\* the configured language wins whenever it is set
EffectiveLanguageConfigFirst(hint, configured) ==
    IF configured # "auto" THEN configured ELSE hint

\* metadata.language if metadata.language != "auto" else self._language
EffectiveLanguage(hint, configured) ==
    IF hint # "auto" THEN hint ELSE configured

\* language_map.get(language_code, language_code): unknown codes passed through
LanguageMapGetPassThrough(code) ==
    IF code \in DOMAIN language_map THEN language_map[code] ELSE code

\* language_map.get(language_code)
LanguageMapGet(code) ==
    IF code \in DOMAIN language_map THEN language_map[code] ELSE NoneStr

\* the effective language cached on the provider
SelfCachingLanguage(provider, code) == [provider EXCEPT !.language = code]

\* the provider after the coroutine's synchronous section: no attribute of
\* self is assigned anywhere in async_process_audio_stream
SelfAfterCall(provider, code) == provider

\* no timeout context around the wait
TimerAbsent(position) == FALSE

\* whether the async_timeout context is entered at a position of the coroutine
TimerArmed(position) == position = "waiting"

----------------------------------------------------------------------------
(* The executor job, stt.py 262-307 *)

\* str(flag).lower()
BoolStr(flag) == IF flag THEN "true" ELSE "false"

\* the form fields, data
FormData(provider, code, mapped) ==
    LET base == [ model_id         |-> provider.model,
                  diarize          |-> BoolStr(provider.diarize),
                  tag_audio_events |-> BoolStr(provider.tag_audio_events) ]
    IN  IF code # "auto" /\ mapped # NoneStr
        THEN base @@ ("language_code" :> mapped)
        ELSE base

\* the arguments of requests.post
JobRequest(provider, code, mapped, wav) ==
    [ url     |-> provider.api_url \o "/speech-to-text",
      headers |-> ("xi-api-key" :> provider.api_key) @@ ("Accept" :> "application/json"),
      data    |-> FormData(provider, code, mapped),
      files   |-> ("file" :> [ filename     |-> "audio.wav",
                               content      |-> wav,
                               content_type |-> "audio/wav" ]) ]

\* what the network does with a request
TransportFailure == [kind |-> "exception"]
HttpResponse(status, body) == [kind |-> "response", status_code |-> status, body |-> body]
NoOutcome == [kind |-> "pending"]

\* whether the try block raises: requests.post raised, or response.json() did
JobCaught(o) ==
    \/ o.kind = "exception"
    \/ o.kind = "response" /\ o.status_code = HTTP_OK /\ o.body.kind = "invalid"

\* the job with the status check missing: the body is parsed whatever the status
JobReturnAnyStatus(o) ==
    IF o.kind = "exception" \/ o.body.kind = "invalid" THEN None ELSE o.body

\* the value the job returns
JobReturn(o) ==
    IF JobCaught(o) THEN None
    ELSE IF o.status_code = HTTP_OK THEN o.body
    ELSE None

\* the records the job writes to _LOGGER
JobLog(o) ==
    IF JobCaught(o)
    THEN << [level |-> "error", msg |-> "ElevenLabs STT request failed: %s"] >>
    ELSE IF o.status_code = HTTP_OK THEN << >>
    ELSE << [level |-> "error", msg |-> "ElevenLabs STT request failed with status %s: %s"] >>

\* a job that is queued again after a failed attempt
JobAfterAttemptRetry(o) ==
    IF JobReturn(o) = None THEN "queued" ELSE "finished"

\* the job's state once the attempt is over: it returns, whatever happened
JobAfterAttempt(o) == "finished"

----------------------------------------------------------------------------
(* The coroutine after the job, stt.py 313-319 *)

SUCCESS == "SUCCESS"
ERROR == "ERROR"
SpeechResult(text, state) == [text |-> text, state |-> state]
NoResult == [text |-> "", state |-> "NONE"]
NoException == "none"

\* the test with response.get("text") in place of "text" in response
ResumeByTruthyText(v) ==
    IF v.kind = "object" /\ "text" \in DOMAIN v.v /\ v.v["text"] # ""
    THEN [ret |-> SpeechResult(v.v["text"], SUCCESS), exc |-> NoException]
    ELSE [ret |-> SpeechResult("", ERROR), exc |-> NoException]

\* if response and "text" in response: return SpeechResult(response["text"], SUCCESS)
\* return SpeechResult("", ERROR)
Resume(v) ==
    IF ~Truthy(v)
    THEN [ret |-> SpeechResult("", ERROR), exc |-> NoException]
    ELSE IF ~ContainsDefined(v)
    THEN [ret |-> NoResult, exc |-> "TypeError"]
    ELSE IF ~Contains(v, "text")
    THEN [ret |-> SpeechResult("", ERROR), exc |-> NoException]
    ELSE IF ~SubscriptDefined(v)
    THEN [ret |-> NoResult, exc |-> "TypeError"]
    ELSE [ret |-> SpeechResult(v.v["text"], SUCCESS), exc |-> NoException]

----------------------------------------------------------------------------
(* The inputs: what the configuration, the callers and the endpoint offer *)

Config(language, diarize, tag_audio_events) ==
    [ api_key          |-> "key",
      api_url          |-> DEFAULT_API_URL,
      model            |-> DEFAULT_MODEL,
      language         |-> language,
      diarize          |-> diarize,
      tag_audio_events |-> tag_audio_events ]

Metadata(channel, language) ==
    [ channel |-> channel, bit_rate |-> 16, sample_rate |-> 16000, language |-> language ]

NoMetadata == [ channel |-> 0, bit_rate |-> 0, sample_rate |-> 0, language |-> "" ]
NoWaveFile == WaveFile(NoMetadata, << >>)

ChunkSamples == { << >>, << 1 >>, << 2, 3 >> }

BodySamples ==
    { JObject("text" :> ""), JObject("text" :> "hello"), JObject("detail" :> "x"),
      JObject(<< >>), NotJson, None, JNumber(5), JString("some text"),
      JArray(<< "text" >>) }

\* one invocation at a time, every kind of input
FullEnv ==
    [ calls     |-> 1,
      maxChunks |-> MaxChunks,
      chunks    |-> ChunkSamples,
      configs   |-> { Config(l, d, FALSE) : l \in {"auto", "zh", "sr"}, d \in BOOLEAN }
                    \cup { Config(DEFAULT_LANGUAGE, FALSE, TRUE) },
      metas     |-> { Metadata(c, l) : c \in {1, 2}, l \in {"auto", "en", "af", "xx"} },
      outcomes  |-> { TransportFailure }
                    \cup { HttpResponse(s, b) : s \in {HTTP_OK, 500}, b \in BodySamples },
      tick      |-> TIMEOUT \div 2 ]

\* every invocation in flight at once, a few inputs each
ConcurrentEnv ==
    [ calls     |-> NumInvocations,
      maxChunks |-> 1,
      chunks    |-> { << 1 >>, << 2, 3 >> },
      configs   |-> { Config("zh", FALSE, FALSE) },
      metas     |-> { Metadata(1, l) : l \in {"auto", "en"} },
      outcomes  |-> { TransportFailure, HttpResponse(HTTP_OK, JObject("text" :> "hello")) },
      tick      |-> TIMEOUT ]

----------------------------------------------------------------------------
(* The state machine *)

InitIn(e) ==
    /\ env = e
    /\ self \in e.configs
    /\ pc = [i \in Invocations |-> "idle"]
    /\ metadata = [i \in Invocations |-> NoMetadata]
    /\ received = [i \in Invocations |-> << >>]
    /\ audio_data = [i \in Invocations |-> << >>]
    /\ language_code = [i \in Invocations |-> NoneStr]
    /\ elevenlabs_language_code = [i \in Invocations |-> NoneStr]
    /\ audio_stream = [i \in Invocations |-> NoWaveFile]
    /\ timer = [i \in Invocations |-> [armed |-> FALSE, elapsed |-> 0]]
    /\ job = [i \in Invocations |-> "none"]
    /\ requests = [i \in Invocations |-> << >>]
    /\ outcome = [i \in Invocations |-> NoOutcome]
    /\ response = [i \in Invocations |-> None]
    /\ log = [i \in Invocations |-> << >>]
    /\ result = [i \in Invocations |-> NoResult]
    /\ raised = [i \in Invocations |-> NoException]

Init == InitIn(FullEnv)

InitConcurrent == InitIn(ConcurrentEnv)

Called == { i \in Invocations : pc[i] # "idle" }

\* async_process_audio_stream(metadata, stream) is called: audio_data = b""
Call(i, m) ==
    /\ pc[i] = "idle"
    /\ \A j \in Invocations : j < i => j \in Called
    /\ Cardinality(Called) < env.calls
    /\ pc' = [pc EXCEPT ![i] = "collecting"]
    /\ metadata' = [metadata EXCEPT ![i] = m]
    /\ UNCHANGED << env, self, received, audio_data, language_code,
                    elevenlabs_language_code, audio_stream, timer, job,
                    requests, outcome, response, log, result, raised >>

\* one turn of `async for chunk in stream`
ReceiveChunk(i, chunk) ==
    /\ pc[i] = "collecting"
    /\ Len(received[i]) < env.maxChunks
    /\ received' = [received EXCEPT ![i] = Append(@, chunk)]
    /\ audio_data' = [audio_data EXCEPT ![i] = Accumulate(@, chunk)]
    /\ UNCHANGED << env, self, pc, metadata, language_code,
                    elevenlabs_language_code, audio_stream, timer, job,
                    requests, outcome, response, log, result, raised >>

\* the stream ends; up to the await of line 311 the coroutine runs without
\* yielding: it packages the audio, chooses the language, enters the timeout
\* and hands the job to the executor
StreamEnd(i) ==
    LET code == EffectiveLanguage(metadata[i].language, self.language)
    IN  /\ pc[i] = "collecting"
        /\ audio_stream' = [audio_stream EXCEPT ![i] = WaveFile(metadata[i], audio_data[i])]
        /\ language_code' = [language_code EXCEPT ![i] = code]
        /\ elevenlabs_language_code' =
               [elevenlabs_language_code EXCEPT ![i] = LanguageMapGet(code)]
        /\ self' = SelfAfterCall(self, code)
        /\ timer' = [timer EXCEPT ![i] = [armed |-> TimerArmed("waiting"), elapsed |-> 0]]
        /\ job' = [job EXCEPT ![i] = "queued"]
        /\ pc' = [pc EXCEPT ![i] = "waiting"]
        /\ UNCHANGED << env, metadata, received, audio_data, requests, outcome,
                        response, log, result, raised >>

\* an executor thread takes the job and reaches requests.post
JobStart(i) ==
    /\ job[i] = "queued"
    /\ requests' = [requests EXCEPT ![i] =
           Append(@, JobRequest(self, language_code[i], elevenlabs_language_code[i],
                                audio_stream[i]))]
    /\ job' = [job EXCEPT ![i] = "running"]
    /\ UNCHANGED << env, self, pc, metadata, received, audio_data, language_code,
                    elevenlabs_language_code, audio_stream, timer, outcome,
                    response, log, result, raised >>

\* requests.post returns or raises, and the job maps that to its return value
JobComplete(i, o) ==
    /\ job[i] = "running"
    /\ outcome' = [outcome EXCEPT ![i] = o]
    /\ response' = [response EXCEPT ![i] = JobReturn(o)]
    /\ log' = [log EXCEPT ![i] = @ \o JobLog(o)]
    /\ job' = [job EXCEPT ![i] = JobAfterAttempt(o)]
    /\ UNCHANGED << env, self, pc, metadata, received, audio_data, language_code,
                    elevenlabs_language_code, audio_stream, timer, requests,
                    result, raised >>

\* the await of line 311 completes and the coroutine runs to its end
Return(i) ==
    LET r == Resume(response[i])
    IN  /\ pc[i] = "waiting"
        /\ job[i] = "finished"
        /\ pc' = [pc EXCEPT ![i] = IF r.exc = NoException THEN "returned" ELSE "raised"]
        /\ result' = [result EXCEPT ![i] = r.ret]
        /\ raised' = [raised EXCEPT ![i] = r.exc]
        /\ timer' = [timer EXCEPT ![i] = [armed |-> TimerArmed(pc'[i]), elapsed |-> 0]]
        /\ UNCHANGED << env, self, metadata, received, audio_data, language_code,
                        elevenlabs_language_code, audio_stream, job, requests,
                        outcome, response, log >>

\* time passes while the coroutine waits; an armed timer fires at its
\* deadline, so time does not pass beyond it before TimeoutFire
Tick(i) ==
    LET limit == IF timer[i].armed THEN TIMEOUT ELSE TIMEOUT + env.tick
        next == timer[i].elapsed + env.tick
    IN  /\ pc[i] = "waiting"
        /\ timer[i].elapsed < limit
        /\ timer' = [timer EXCEPT ![i].elapsed = IF next > limit THEN limit ELSE next]
        /\ UNCHANGED << env, self, pc, metadata, received, audio_data, language_code,
                        elevenlabs_language_code, audio_stream, job, requests,
                        outcome, response, log, result, raised >>

\* the timeout fires: the task is cancelled at its await, a job still queued
\* is cancelled with it, a job already on a thread runs on, and TimeoutError
\* leaves the `async with`
TimeoutFire(i) ==
    /\ pc[i] = "waiting"
    /\ timer[i].armed
    /\ timer[i].elapsed >= TIMEOUT
    /\ pc' = [pc EXCEPT ![i] = "raised"]
    /\ raised' = [raised EXCEPT ![i] = "TimeoutError"]
    /\ job' = [job EXCEPT ![i] = IF @ = "queued" THEN "cancelled" ELSE @]
    /\ timer' = [timer EXCEPT ![i] = [armed |-> TimerArmed(pc'[i]), elapsed |-> 0]]
    /\ UNCHANGED << env, self, metadata, received, audio_data, language_code,
                    elevenlabs_language_code, audio_stream, requests, outcome,
                    response, log, result >>

Next ==
    \E i \in Invocations :
        \/ \E m \in env.metas : Call(i, m)
        \/ \E chunk \in env.chunks : ReceiveChunk(i, chunk)
        \/ StreamEnd(i)
        \/ JobStart(i)
        \/ \E o \in env.outcomes : JobComplete(i, o)
        \/ Return(i)
        \/ Tick(i)
        \/ TimeoutFire(i)

Spec == Init /\ [][Next]_vars

SpecConcurrent == InitConcurrent /\ [][Next]_vars

----------------------------------------------------------------------------
(* Properties *)

Returned(i) == pc[i] = "returned"
Terminated(i) == pc[i] \in {"returned", "raised"}
Answered(i) == outcome[i].kind = "response"
HasTextField(body) == body.kind = "object" /\ "text" \in DOMAIN body.v
Issued(i) == Len(requests[i]) > 0
CarriesLanguage(r) == "language_code" \in DOMAIN r.data

\* C1: an invocation that returns after the endpoint answered 200 with a JSON
\* body that has a text field returns SUCCESS carrying exactly that text, the
\* empty string included.
C1_SuccessCarriesText ==
    \A i \in Invocations :
        ( /\ Returned(i)
          /\ Answered(i)
          /\ outcome[i].status_code = HTTP_OK
          /\ HasTextField(outcome[i].body) )
        => result[i] = [text |-> outcome[i].body.v["text"], state |-> SUCCESS]

\* a 200 response with the empty text was returned as SUCCESS with empty text
C1_Witness ==
    \E i \in Invocations :
        /\ Returned(i)
        /\ outcome[i] = HttpResponse(HTTP_OK, JObject("text" :> ""))
        /\ result[i].state = SUCCESS
        /\ result[i].text = ""

\* C2: an invocation that returns after the endpoint answered with a status
\* other than 200 returns ERROR, whatever the body holds.
C2_Non200IsError ==
    \A i \in Invocations :
        (Returned(i) /\ Answered(i) /\ outcome[i].status_code # HTTP_OK)
        => result[i].state = ERROR

\* a 500 response whose body has a text field was returned as ERROR
C2_Witness ==
    \E i \in Invocations :
        /\ Returned(i)
        /\ Answered(i)
        /\ outcome[i].status_code = 500
        /\ HasTextField(outcome[i].body)
        /\ result[i].state = ERROR

\* the three failure kinds of the error-handling design
FailureKind(o) ==
    IF o.kind = "exception" THEN "transport"
    ELSE IF o.kind = "response" /\ o.status_code # HTTP_OK THEN "status"
    ELSE IF o.kind = "response" /\ o.body.kind = "object" /\ ~HasTextField(o.body)
    THEN "no text"
    ELSE "none"

LoggedError(i) == \E k \in 1 .. Len(log[i]) : log[i][k].level = "error"

\* C3: each of the three failure kinds (transport failure, non-200 response,
\* 200 response without a text field) is logged as an error and returns the
\* same result, empty text with state ERROR.
C3_FailuresLoggedAndCollapsed ==
    \A i \in Invocations :
        (Returned(i) /\ FailureKind(outcome[i]) # "none")
        => (result[i] = SpeechResult("", ERROR) /\ LoggedError(i))

\* C4: every invocation that terminates does so by returning a result, SUCCESS
\* or ERROR, whatever the outcome of the outbound call (any response, a
\* transport failure, the timeout firing first).
C4_AlwaysReturnsResult ==
    \A i \in Invocations :
        Terminated(i) => (Returned(i) /\ result[i].state \in {SUCCESS, ERROR})

\* C5: a request carries language_code equal to the table's value for the
\* effective language when that language is a key of the table other than
\* "auto", and carries no language_code field otherwise.
C5_LanguageLookup ==
    \A i \in Invocations :
        \A k \in 1 .. Len(requests[i]) :
            LET r == requests[i][k]
                L == language_code[i]
            IN  IF L \in DOMAIN language_map /\ L # "auto"
                THEN CarriesLanguage(r) /\ r.data["language_code"] = language_map[L]
                ELSE ~CarriesLanguage(r)

\* a request went out for a supported language the table lacks, without the field
C5_Witness ==
    \E i \in Invocations :
        /\ Issued(i)
        /\ language_code[i] \in SUPPORTED_LANGUAGES \ DOMAIN language_map
        /\ ~CarriesLanguage(requests[i][1])

\* C6 as stated: an invocation issues at most one request, and exactly one
\* once stream collection and packaging have succeeded and it has terminated.
C6_ExactlyOneRequest ==
    \A i \in Invocations :
        /\ Len(requests[i]) <= 1
        /\ Terminated(i) => Len(requests[i]) = 1

\* C6, amended: an invocation issues at most one request; exactly one as soon
\* as an executor thread has taken the job, hence whenever the invocation
\* returns a result; none when the timeout fires while the job is still
\* queued, which cancels the job; and no second one after any failure.
C6_AtMostOneRequest ==
    \A i \in Invocations :
        /\ Len(requests[i]) <= 1
        /\ job[i] \in {"running", "finished"} <=> Len(requests[i]) = 1
        /\ Returned(i) => Len(requests[i]) = 1
        /\ job[i] = "cancelled" => (requests[i] = << >> /\ raised[i] = "TimeoutError")

\* an invocation returned ERROR after a failed request, with one request issued
C6_Witness ==
    \E i \in Invocations :
        /\ Returned(i)
        /\ FailureKind(outcome[i]) # "none"
        /\ result[i].state = ERROR
        /\ Len(requests[i]) = 1

\* C7: the wait for the job is bounded by the timeout: a waiting invocation is
\* inside the armed timeout, never beyond its deadline, and at the deadline
\* the only thing time allows is the timeout firing; a collecting invocation
\* is not in the timed section.
C7_WaitBounded ==
    \A i \in Invocations :
        /\ pc[i] = "waiting" =>
              /\ timer[i].armed
              /\ timer[i].elapsed <= TIMEOUT
              /\ timer[i].elapsed = TIMEOUT =>
                    (ENABLED TimeoutFire(i) /\ ~ENABLED Tick(i))
        /\ pc[i] = "collecting" => (~timer[i].armed /\ job[i] = "none")

\* the endpoint has not answered and the deadline is reached
C7_Witness ==
    \E i \in Invocations :
        /\ pc[i] = "waiting"
        /\ job[i] = "running"
        /\ outcome[i] = NoOutcome
        /\ timer[i].elapsed = TIMEOUT

\* the locals of one invocation
Frame(i) ==
    << pc[i], metadata[i], received[i], audio_data[i], language_code[i],
       elevenlabs_language_code[i], audio_stream[i], timer[i], job[i],
       requests[i], outcome[i], response[i], log[i], result[i], raised[i] >>

\* the request and result of i are those a lone invocation would produce from
\* the configuration at construction, its own metadata, chunks and response
OwnInputsOnly(i, config) ==
    LET code == IF metadata[i].language # "auto" THEN metadata[i].language
                ELSE config.language
    IN  /\ \A k \in 1 .. Len(requests[i]) :
              requests[i][k] =
                  JobRequest(config, code, LanguageMapGet(code),
                             WaveFile(metadata[i], audio_data[i]))
        /\ Returned(i) => result[i] = Resume(JobReturn(outcome[i])).ret

\* C8: invocations share no mutable state: no step changes a field of the
\* provider, a step changes the locals of at most one invocation, and each
\* invocation's request and result depend only on its own inputs.
C8_NoSharedState ==
    [][ /\ self' = self
        /\ \A i, j \in Invocations :
              (i # j /\ Frame(i)' # Frame(i)) => Frame(j)' = Frame(j)
        /\ \A i \in Invocations : OwnInputsOnly(i, self)'
      ]_vars

\* two invocations in flight at once, with different inputs, both with a request out
C8_Witness ==
    \E i, j \in Invocations :
        /\ i # j
        /\ Issued(i) /\ Issued(j)
        /\ job[i] = "running" /\ job[j] = "running"
        /\ metadata[i] # metadata[j]
        /\ received[i] # received[j]

RECURSIVE Concatenation(_)
\* the chunks of a stream end to end, first to last
Concatenation(chunks) ==
    IF chunks = << >> THEN << >> ELSE Head(chunks) \o Concatenation(Tail(chunks))

\* C9: no request is issued while chunks are still arriving, and the audio
\* packaged for a request is the concatenation of all received chunks in
\* arrival order.
C9_RequestAfterWholeStream ==
    \A i \in Invocations :
        /\ pc[i] = "collecting" => (requests[i] = << >> /\ job[i] = "none")
        /\ \A k \in 1 .. Len(requests[i]) :
              LET wav == requests[i][k].files["file"].content
              IN  /\ wav.frames = Concatenation(received[i])
                  /\ wav.data_size = Len(Concatenation(received[i]))

\* a request went out for a stream of two different non-empty chunks
C9_Witness ==
    \E i \in Invocations :
        /\ Issued(i)
        /\ received[i] = << << 2, 3 >>, << 1 >> >>
        /\ requests[i][1].files["file"].content.frames = << 2, 3, 1 >>

\* C10: the effective language is the metadata's hint unless the hint is
\* "auto", and the configured language only then; so a hint the table lacks
\* gives a request without language_code even when the configured language
\* is a key of the table.
C10_HintOverridesConfigured ==
    \A i \in Invocations :
        pc[i] \notin {"idle", "collecting"} =>
            /\ metadata[i].language # "auto" => language_code[i] = metadata[i].language
            /\ metadata[i].language = "auto" => language_code[i] = self.language
            /\ \A k \in 1 .. Len(requests[i]) :
                  metadata[i].language \notin DOMAIN language_map
                      => ~CarriesLanguage(requests[i][k])

\* a hint the table lacks, a configured language the table has, a request without the field
C10_Witness ==
    \E i \in Invocations :
        /\ Issued(i)
        /\ metadata[i].language \notin DOMAIN language_map
        /\ self.language \in DOMAIN language_map \ {"auto"}
        /\ ~CarriesLanguage(requests[i][1])

====
